---- MODULE Spec2Model ----
(***************************************************************************)
(* Shared-expense settlement of the expense manager: equal splitting of a  *)
(* shared expense, derivation of debts from splits, and payments towards   *)
(* debts (apps/shared_expenses).  Money is counted in hundredths of the    *)
(* currency unit, the resolution of the DecimalField(decimal_places=2)     *)
(* columns.                                                                *)
(***************************************************************************)
EXTENDS Integers, Sequences, FiniteSets, TLC

\* ---------------------------------------------------------------- bounds
MaxUsers == 3          \* members of the expense group
MaxPayments == 3       \* DebtPayment rows recorded in one behaviour
MaxSharedExpenses == 3 \* SharedExpense rows, and the expenses they refer to
MaxExpenses == 2       \* Expense rows matching the budget
MaxAlerts == 2         \* BudgetAlert rows after which no reset is requested
MaxNotifications == 3  \* calls of NotificationService.send_budget_alert

\* ------------------------------------------------------ program constants
CentsPerUnit == 100    \* decimal_places=2 : one currency unit is 100 hundredths

PENDING == "PENDING"
PARTIALLY_PAID == "PARTIALLY_PAID"
SETTLED == "SETTLED"
CANCELLED == "CANCELLED"

\* the null of settled_at (null=True, blank=True)
NoTime == 0

\* --------------------------------------------------------------- inputs
\* members of the group, named by their rank in the iteration order of
\* group.members.all()
Users == 1..MaxUsers

\* all User rows: the members of the group and one user outside it
Accounts == 1..(MaxUsers + 1)

\* expense.amount of the shared expense, in hundredths: 3.00, 9.00 and
\* 100.00
Totals == {300, 900, 10000}

\* request.data.get('amount') of DebtViewSet.add_payment: absent (None, ""),
\* a JSON integer, or a value Decimal cannot be added to (a JSON string or
\* float)
RequestAmounts ==
    {[kind |-> "none", value |-> 0], [kind |-> "other", value |-> 0]}
        \cup {[kind |-> "int", value |-> v] : v \in -1..2}

VARIABLES shared_expense, splits, debts, payments, now, last,
          shared_expenses, budget, expenses, alerts, reset_mark,
          workers, outbox, response, group

\* shared_expense : the SharedExpense whose splits are created, with the
\*                  amount of its expense
\* splits, debts, payments : the SharedExpenseSplit, Debt, DebtPayment rows
\* now            : timezone.now()
\* last           : the last request and its outcome
\* shared_expenses: the SharedExpense rows (expense and paid_by)
\* budget         : the Budget row
\* expenses       : the Expense rows
\* alerts         : the BudgetAlert rows of the budget
\* reset_mark     : the number of BudgetAlert rows at the last reset_alerts
\* workers        : the requests in progress, each with the model instance it
\*                  holds in memory
\* outbox         : the calls of NotificationService.send_budget_alert, with
\*                  the BudgetAlert row each left
\* response       : the body of the last balance_summary response
\* group          : the ExpenseGroup row and its members
vars == <<shared_expense, splits, debts, payments, now, last,
          shared_expenses, budget, expenses, alerts, reset_mark,
          workers, outbox, response, group>>

\* the rows of the budgets application
budgetVars == <<budget, expenses, alerts, reset_mark>>

\* the requests in progress, the notifications, the last summary, the group
serviceVars == <<workers, outbox, response, group>>

\* the two requests that run concurrently
Workers == 1..2

\* a request that has not started
IdleWorker ==
    [pc |-> "idle", instance |-> [status |-> "none"], spent |-> 0,
     debt |-> 0, amount |-> 0, loaded |-> 0]

\* ------------------------------------------------------------- helpers
\* the members of a set of users as the list the queryset yields
RECURSIVE OrderedList(_)
OrderedList(S) ==
    IF S = {} THEN <<>>
    ELSE LET m == CHOOSE x \in S : \A y \in S : x <= y
         IN <<m>> \o OrderedList(S \ {m})

\* num/den quantized to a whole number of hundredths, ties to even: what a
\* DecimalField(decimal_places=2) column stores for the Decimal num/den
StoreDecimal(num, den) ==
    LET q == num \div den
        r == num % den
    IN IF 2 * r < den THEN q
       ELSE IF 2 * r > den THEN q + 1
       ELSE IF q % 2 = 0 THEN q ELSE q + 1

\* sum of the amounts of the DebtPayment rows of debt d among the first n rows
RECURSIVE SumPayments(_, _, _)
SumPayments(ps, d, n) ==
    IF n = 0 THEN 0
    ELSE SumPayments(ps, d, n - 1) + (IF ps[n].debt = d THEN ps[n].amount ELSE 0)

\* sum of the amounts of the split rows from..to
RECURSIVE SumSplits(_, _, _)
SumSplits(sp, from, to) ==
    IF from > to THEN 0 ELSE sp[to].amount + SumSplits(sp, from, to - 1)

\* Debt.remaining_amount
remaining_amount(debt) == debt.amount - debt.settled_amount

\* ------------------------------------------------------------ Debt model
\* Debt.add_payment without the cap of settled_amount at the debt's amount
Debt_add_payment_nocap(debt, amount, t) ==
    LET s == debt.settled_amount + amount
    IN IF s >= debt.amount
       THEN [debt EXCEPT !.status = SETTLED, !.settled_at = t,
                         !.settled_amount = s]
       ELSE IF s > 0
       THEN [debt EXCEPT !.settled_amount = s, !.status = PARTIALLY_PAID]
       ELSE [debt EXCEPT !.settled_amount = s]

\* Debt.add_payment, the update of the Debt row (t is timezone.now())
Debt_add_payment(debt, amount, t) ==
    LET s == debt.settled_amount + amount
    IN IF s >= debt.amount
       THEN [debt EXCEPT !.status = SETTLED, !.settled_at = t,
                         !.settled_amount = debt.amount]
       ELSE IF s > 0
       THEN [debt EXCEPT !.settled_amount = s, !.status = PARTIALLY_PAID]
       ELSE [debt EXCEPT !.settled_amount = s]

\* Debt.add_payment, the DebtPayment row it creates
DebtPayment_create(d, amount) == [debt |-> d, amount |-> amount]

\* Debt.settle_full paying the debt's whole amount instead of the remainder
Debt_settle_full_whole(debt) ==
    LET remaining == remaining_amount(debt)
    IN IF remaining > 0 THEN debt.amount ELSE 0

\* Debt.settle_full: the amount it pays, 0 when it does nothing
Debt_settle_full(debt) ==
    LET remaining == remaining_amount(debt)
    IN IF remaining > 0 THEN remaining ELSE 0

\* ----------------------------------------------------- splits and debts
\* the handler creating a Debt for the payer's own split as well
create_debt_on_split_self(ds, k, split, se, created) ==
    IF created /\ ~split.is_settled
    THEN IF \E i \in DOMAIN ds : /\ ds[i].creditor = se.paid_by
                                 /\ ds[i].debtor = split.user
                                 /\ ds[i].shared_expense_split = k
         THEN ds
         ELSE Append(ds, [creditor |-> se.paid_by, debtor |-> split.user,
                          shared_expense_split |-> k, amount |-> split.amount,
                          status |-> PENDING, settled_amount |-> 0,
                          settled_at |-> NoTime])
    ELSE ds

\* the handler creating a Debt on every save of an unsettled split
create_debt_on_split_every_save(ds, k, split, se, created) ==
    IF ~split.is_settled /\ split.user # se.paid_by
    THEN Append(ds, [creditor |-> se.paid_by, debtor |-> split.user,
                     shared_expense_split |-> k, amount |-> split.amount,
                     status |-> PENDING, settled_amount |-> 0,
                     settled_at |-> NoTime])
    ELSE ds

\* post_save handler of SharedExpenseSplit: the debts after split row k was
\* saved (created tells an INSERT from an UPDATE)
create_debt_on_split(ds, k, split, se, created) ==
    IF created /\ ~split.is_settled /\ split.user # se.paid_by
    THEN IF \E i \in DOMAIN ds : /\ ds[i].creditor = se.paid_by
                                 /\ ds[i].debtor = split.user
                                 /\ ds[i].shared_expense_split = k
         THEN ds
         ELSE Append(ds, [creditor |-> se.paid_by, debtor |-> split.user,
                          shared_expense_split |-> k, amount |-> split.amount,
                          status |-> PENDING, settled_amount |-> 0,
                          settled_at |-> NoTime])
    ELSE ds

\* SharedExpense.create_equal_splits, the loop over the members from the
\* i-th on; a row that breaks unique_together raises IntegrityError and
\* ends the loop, the rows already created stay
RECURSIVE create_splits_loop(_, _, _, _, _)
create_splits_loop(st, members, i, amount, se) ==
    IF i > Len(members) THEN st
    ELSE IF \E k \in DOMAIN st.splits : st.splits[k].user = members[i]
    THEN [st EXCEPT !.ok = FALSE]
    ELSE LET split == [user |-> members[i], amount |-> amount,
                       is_settled |-> FALSE, settled_at |-> NoTime]
             sp == Append(st.splits, split)
         IN create_splits_loop(
                [splits |-> sp,
                 debts |-> create_debt_on_split(st.debts, Len(sp), split, se,
                                               TRUE),
                 ok |-> TRUE],
                members, i + 1, amount, se)

\* SharedExpense.create_equal_splits
SharedExpense_create_equal_splits(st, members, se) ==
    IF Len(members) = 0 THEN st
    ELSE create_splits_loop(st, members, 1,
                            StoreDecimal(se.amount, Len(members)), se)

\* --------------------------------------------------------------- budgets
ACTIVE == "ACTIVE"
EXCEEDED == "EXCEEDED"
COMPLETED == "COMPLETED"

\* a Budget row as Budget.objects.create makes it
NewBudget(amount, threshold_80, threshold_100) ==
    [amount |-> amount, status |-> ACTIVE,
     alert_threshold_80 |-> threshold_80, alert_threshold_100 |-> threshold_100,
     alerted_at_80 |-> FALSE, alerted_at_100 |-> FALSE]

\* the budget of 500.00 of the behaviours
DefaultBudgetAmount == 50000

\* amount of an expense in hundredths: 100.00, 400.00 and 600.00, that is
\* 20%, 80% and 120% of the budget
ExpenseAmounts == {10000, 40000, 60000}

ALERT_80 == "80_PERCENT"
ALERT_EXCEEDED == "EXCEEDED"

\* a spent amount that counts the soft-deleted expenses as well
RECURSIVE spent_amount_with_deleted(_)
spent_amount_with_deleted(exps) ==
    IF exps = <<>> THEN 0
    ELSE (IF Head(exps).status = COMPLETED THEN Head(exps).amount ELSE 0)
             + spent_amount_with_deleted(Tail(exps))

\* Budget.spent_amount: the sum over the expenses of the budget's owner,
\* category and period that are COMPLETED and not soft-deleted
RECURSIVE spent_amount(_)
spent_amount(exps) ==
    IF exps = <<>> THEN 0
    ELSE (IF Head(exps).status = COMPLETED /\ ~Head(exps).is_deleted
          THEN Head(exps).amount ELSE 0) + spent_amount(Tail(exps))

\* Budget.utilization_percentage >= pct, for a spent amount
utilization_at_least(b, spent, pct) ==
    IF b.amount > 0 THEN spent * 100 >= pct * b.amount ELSE 0 >= pct

\* the utilization test of the 80% branch without its upper limit
in_warning_range_unlimited(b, spent) ==
    utilization_at_least(b, spent, 80)

\* the utilization test of the 80% branch: utilization >= 80 and < 100
in_warning_range(b, spent) ==
    utilization_at_least(b, spent, 80) /\ ~utilization_at_least(b, spent, 100)

\* the utilization test of the 100% branch taken as utilization > 100
is_exceeded_strictly(b, spent) ==
    b.amount > 0 /\ spent * 100 > 100 * b.amount

\* the utilization test of the 100% branch: utilization >= 100
is_exceeded(b, spent) ==
    utilization_at_least(b, spent, 100)

\* the 80% branch taken whether or not the alert was already sent
should_alert_80_again(b, spent) ==
    b.alert_threshold_80 /\ in_warning_range(b, spent)

\* the condition of the 80% branch of Budget.check_and_send_alerts
should_alert_80(b, spent) ==
    b.alert_threshold_80 /\ ~b.alerted_at_80 /\ in_warning_range(b, spent)

\* the condition of the 100% branch of Budget.check_and_send_alerts
should_alert_100(b, spent) ==
    b.alert_threshold_100 /\ ~b.alerted_at_100 /\ is_exceeded(b, spent)

\* NotificationService.send_budget_alert: the BudgetAlert row it creates
send_budget_alert(als, alert_type) == Append(als, alert_type)

\* an evaluation that withdraws the 80% flag once utilization is below 80
Budget_check_and_send_alerts_clearing(st, spent) ==
    LET st80 == IF should_alert_80(st.budget, spent)
                THEN [budget |-> [st.budget EXCEPT !.alerted_at_80 = TRUE],
                      alerts |-> send_budget_alert(st.alerts, ALERT_80)]
                ELSE IF ~utilization_at_least(st.budget, spent, 80)
                THEN [st EXCEPT !.budget.alerted_at_80 = FALSE]
                ELSE st
    IN IF should_alert_100(st80.budget, spent)
       THEN [budget |-> [st80.budget EXCEPT !.alerted_at_100 = TRUE,
                                            !.status = EXCEEDED],
             alerts |-> send_budget_alert(st80.alerts, ALERT_EXCEEDED)]
       ELSE st80

\* Budget.check_and_send_alerts on the Budget and BudgetAlert rows st, for
\* the spent amount the call computes
Budget_check_and_send_alerts(st, spent) ==
    LET st80 == IF should_alert_80(st.budget, spent)
                THEN [budget |-> [st.budget EXCEPT !.alerted_at_80 = TRUE],
                      alerts |-> send_budget_alert(st.alerts, ALERT_80)]
                ELSE st
    IN IF should_alert_100(st80.budget, spent)
       THEN [budget |-> [st80.budget EXCEPT !.alerted_at_100 = TRUE,
                                            !.status = EXCEEDED],
             alerts |-> send_budget_alert(st80.alerts, ALERT_EXCEEDED)]
       ELSE st80

\* a handler that selects the budget whatever its status
is_evaluated_any_status(b, exps, i) ==
    exps[i].status = COMPLETED /\ ~exps[i].is_deleted

\* whether the post_save handler of Expense selects the budget for the saved
\* row i: the row is counted and the budget is ACTIVE
is_evaluated(b, exps, i) ==
    exps[i].status = COMPLETED /\ ~exps[i].is_deleted /\ b.status = ACTIVE

\* post_save handler of Expense for the saved row i
check_budget_on_expense(st, exps, i) ==
    IF is_evaluated(st.budget, exps, i)
    THEN Budget_check_and_send_alerts(st, spent_amount(exps))
    ELSE st

\* a reset that also turns both alerts on again
Budget_reset_alerts_defaults(b) ==
    [b EXCEPT !.alerted_at_80 = FALSE, !.alerted_at_100 = FALSE,
              !.alert_threshold_80 = TRUE, !.alert_threshold_100 = TRUE]

\* Budget.reset_alerts
Budget_reset_alerts(b) ==
    [b EXCEPT !.alerted_at_80 = FALSE, !.alerted_at_100 = FALSE]

\* ---------------------------------------------------------------- state
Init ==
    /\ shared_expense \in [amount : Totals, paid_by : Users]
    /\ splits = <<>>
    /\ debts = <<>>
    /\ payments = <<>>
    /\ now = 1
    /\ last = [op |-> "none", debt |-> 0, kind |-> "none", amount |-> 0,
               created |-> 0, outcome |-> "none"]
    /\ shared_expenses = <<[expense |-> 1, paid_by |-> shared_expense.paid_by]>>
    /\ budget = NewBudget(DefaultBudgetAmount, TRUE, TRUE)
    /\ expenses = <<>>
    /\ alerts = <<>>
    /\ reset_mark = 0
    /\ workers = [w \in Workers |-> IdleWorker]
    /\ outbox = <<>>
    /\ response = <<>>
    /\ group = [admin |-> 1, members |-> Users]

\* POST shared-expenses/<pk>/create_equal_splits/ with members = member_ids
SharedExpenseViewSet_create_equal_splits(member_ids) ==
    LET members == IF member_ids # {} THEN OrderedList(member_ids \cap Users)
                   ELSE OrderedList(Users)
        st == SharedExpense_create_equal_splits(
                  [splits |-> splits, debts |-> debts, ok |-> TRUE],
                  members, shared_expense)
    IN /\ splits' = st.splits
       /\ debts' = st.debts
       /\ last' = [op |-> "create_equal_splits", debt |-> 0, kind |-> "none",
                   amount |-> 0, created |-> Len(st.splits) - Len(splits),
                   outcome |-> IF st.ok THEN "200" ELSE "IntegrityError"]
       /\ UNCHANGED <<shared_expense, payments, now, shared_expenses>>
       /\ UNCHANGED budgetVars
       /\ UNCHANGED serviceVars

\* POST debts/<pk>/add_payment/ with amount = req
DebtViewSet_add_payment(d, req) ==
    /\ d \in DOMAIN debts
    /\ Len(payments) < MaxPayments
    /\ IF req.kind = "none" \/ (req.kind = "int" /\ req.value = 0)
       THEN /\ last' = [op |-> "add_payment", debt |-> d, kind |-> req.kind,
                        amount |-> 0, created |-> 0, outcome |-> "400"]
            /\ UNCHANGED <<debts, payments, now>>
       ELSE IF req.kind = "other"
       THEN /\ last' = [op |-> "add_payment", debt |-> d, kind |-> req.kind,
                        amount |-> 0, created |-> 0, outcome |-> "TypeError"]
            /\ UNCHANGED <<debts, payments, now>>
       ELSE LET amount == req.value * CentsPerUnit
            IN /\ debts' = [debts EXCEPT ![d] = Debt_add_payment(@, amount, now)]
               /\ payments' = Append(payments, DebtPayment_create(d, amount))
               /\ now' = now + 1
               /\ last' = [op |-> "add_payment", debt |-> d, kind |-> req.kind,
                           amount |-> amount, created |-> 1, outcome |-> "200"]
    /\ UNCHANGED <<shared_expense, splits, shared_expenses>>
    /\ UNCHANGED budgetVars
    /\ UNCHANGED serviceVars

\* POST debts/<pk>/settle/
DebtViewSet_settle(d) ==
    /\ d \in DOMAIN debts
    /\ Len(payments) < MaxPayments
    /\ LET amount == Debt_settle_full(debts[d])
       IN IF amount # 0
          THEN /\ debts' = [debts EXCEPT ![d] = Debt_add_payment(@, amount, now)]
               /\ payments' = Append(payments, DebtPayment_create(d, amount))
               /\ now' = now + 1
               /\ last' = [op |-> "settle", debt |-> d, kind |-> "none",
                           amount |-> amount, created |-> 1, outcome |-> "200"]
          ELSE /\ last' = [op |-> "settle", debt |-> d, kind |-> "none",
                           amount |-> 0, created |-> 0, outcome |-> "200"]
               /\ UNCHANGED <<debts, payments, now>>
    /\ UNCHANGED <<shared_expense, splits, shared_expenses>>
    /\ UNCHANGED budgetVars
    /\ UNCHANGED serviceVars

\* PATCH debts/<pk>/ with status = CANCELLED (status is a writable field of
\* DebtSerializer): the only way a Debt becomes CANCELLED
DebtViewSet_partial_update(d) ==
    /\ d \in DOMAIN debts
    /\ debts' = [debts EXCEPT ![d].status = CANCELLED]
    /\ last' = [op |-> "partial_update", debt |-> d, kind |-> "none",
                amount |-> 0, created |-> 0, outcome |-> "200"]
    /\ UNCHANGED <<shared_expense, splits, payments, now, shared_expenses>>
    /\ UNCHANGED budgetVars
    /\ UNCHANGED serviceVars

\* SharedExpenseSplit.settle of split row k: an UPDATE of the row, after
\* which the post_save handler runs with created = False
SharedExpenseSplit_settle(k) ==
    /\ k \in DOMAIN splits
    /\ LET split == [splits[k] EXCEPT !.is_settled = TRUE, !.settled_at = now]
       IN /\ splits' = [splits EXCEPT ![k] = split]
          /\ debts' = create_debt_on_split(debts, k, split, shared_expense,
                                           FALSE)
    /\ last' = [op |-> "split_settle", debt |-> k, kind |-> "none",
                amount |-> 0, created |-> 0, outcome |-> "200"]
    /\ UNCHANGED <<shared_expense, payments, now, shared_expenses>>
    /\ UNCHANGED budgetVars
    /\ UNCHANGED serviceVars

\* SharedExpenseSplit.unsettle of split row k
SharedExpenseSplit_unsettle(k) ==
    /\ k \in DOMAIN splits
    /\ LET split == [splits[k] EXCEPT !.is_settled = FALSE,
                                      !.settled_at = NoTime]
       IN /\ splits' = [splits EXCEPT ![k] = split]
          /\ debts' = create_debt_on_split(debts, k, split, shared_expense,
                                           FALSE)
    /\ last' = [op |-> "split_unsettle", debt |-> k, kind |-> "none",
                amount |-> 0, created |-> 0, outcome |-> "200"]
    /\ UNCHANGED <<shared_expense, payments, now, shared_expenses>>
    /\ UNCHANGED budgetVars
    /\ UNCHANGED serviceVars

\* POST shared-expenses/ with expense = e and paid_by = p: the
\* ModelSerializer checks that the rows e and p exist, nothing else
SharedExpenseViewSet_create(e, p) ==
    /\ Len(shared_expenses) < MaxSharedExpenses
    /\ shared_expenses' = Append(shared_expenses, [expense |-> e, paid_by |-> p])
    /\ last' = [op |-> "shared_expense_create", debt |-> e, kind |-> "none",
                amount |-> 0, created |-> 1, outcome |-> "201"]
    /\ UNCHANGED <<shared_expense, splits, debts, payments, now>>
    /\ UNCHANGED budgetVars
    /\ UNCHANGED serviceVars

\* the state after the save of expense row i of exps by request op
ExpenseSaved(op, exps, i) ==
    LET st == check_budget_on_expense([budget |-> budget, alerts |-> alerts],
                                      exps, i)
    IN /\ expenses' = exps
       /\ budget' = st.budget
       /\ alerts' = st.alerts
       /\ last' = [op |-> op, debt |-> i,
                   kind |-> IF is_evaluated(budget, exps, i)
                            THEN "evaluated" ELSE "none",
                   amount |-> 0, created |-> Len(st.alerts) - Len(alerts),
                   outcome |-> "200"]
       /\ UNCHANGED <<shared_expense, splits, debts, payments, now,
                      shared_expenses, reset_mark>>
       /\ UNCHANGED serviceVars

\* a request for an expense the view's queryset does not hold
ExpenseNotFound(op, i) ==
    /\ last' = [op |-> op, debt |-> i, kind |-> "none", amount |-> 0,
                created |-> 0, outcome |-> "404"]
    /\ UNCHANGED <<shared_expense, splits, debts, payments, now,
                   shared_expenses>>
    /\ UNCHANGED budgetVars
    /\ UNCHANGED serviceVars

\* POST expenses/ with amount = a, in the budget's category and period and
\* with the default status COMPLETED
ExpenseViewSet_create(a) ==
    /\ Len(expenses) < MaxExpenses
    /\ LET exps == Append(expenses, [amount |-> a, status |-> COMPLETED,
                                     is_deleted |-> FALSE])
       IN ExpenseSaved("expense_create", exps, Len(exps))

\* POST expenses/<pk>/complete/ : the queryset holds the COMPLETED rows that
\* are not deleted; Transaction.complete saves the row
ExpenseViewSet_complete(i) ==
    /\ i \in DOMAIN expenses
    /\ IF expenses[i].status = COMPLETED /\ ~expenses[i].is_deleted
       THEN ExpenseSaved("expense_complete",
                         [expenses EXCEPT ![i].status = COMPLETED], i)
       ELSE ExpenseNotFound("expense_complete", i)

\* POST expenses/<pk>/cancel/
ExpenseViewSet_cancel(i) ==
    /\ i \in DOMAIN expenses
    /\ IF expenses[i].status = COMPLETED /\ ~expenses[i].is_deleted
       THEN ExpenseSaved("expense_cancel",
                         [expenses EXCEPT ![i].status = CANCELLED], i)
       ELSE ExpenseNotFound("expense_cancel", i)

\* the admin action mark_completed on expense row i
ExpenseAdmin_mark_completed(i) ==
    /\ i \in DOMAIN expenses
    /\ ExpenseSaved("admin_mark_completed",
                    [expenses EXCEPT ![i].status = COMPLETED], i)

\* delete_expense_view: soft_delete of expense row i
delete_expense_view(i) ==
    /\ i \in DOMAIN expenses
    /\ ExpenseSaved("expense_delete",
                    [expenses EXCEPT ![i].is_deleted = TRUE], i)

\* SoftDeleteMixin.restore of expense row i
Expense_restore(i) ==
    /\ i \in DOMAIN expenses
    /\ ExpenseSaved("expense_restore",
                    [expenses EXCEPT ![i].is_deleted = FALSE], i)

\* POST budgets/<pk>/reset_alerts/ : the queryset holds the ACTIVE budgets
BudgetViewSet_reset_alerts ==
    /\ Len(alerts) < MaxAlerts
    /\ IF budget.status = ACTIVE
       THEN /\ budget' = Budget_reset_alerts(budget)
            /\ reset_mark' = Len(alerts)
            /\ last' = [op |-> "reset_alerts", debt |-> 0, kind |-> "none",
                        amount |-> 0, created |-> 0, outcome |-> "200"]
       ELSE /\ last' = [op |-> "reset_alerts", debt |-> 0, kind |-> "none",
                        amount |-> 0, created |-> 0, outcome |-> "404"]
            /\ UNCHANGED <<budget, reset_mark>>
    /\ UNCHANGED <<shared_expense, splits, debts, payments, now,
                   shared_expenses, expenses, alerts>>
    /\ UNCHANGED serviceVars

\* the change form of BudgetAdmin saved with status = ACTIVE for an EXCEEDED
\* budget, the other fields as they are
BudgetAdmin_change_status ==
    /\ budget.status = EXCEEDED
    /\ budget' = [budget EXCEPT !.status = ACTIVE]
    /\ last' = [op |-> "admin_change_status", debt |-> 0, kind |-> "none",
                amount |-> 0, created |-> 0, outcome |-> "200"]
    /\ UNCHANGED <<shared_expense, splits, debts, payments, now,
                   shared_expenses, expenses, alerts, reset_mark>>
    /\ UNCHANGED serviceVars

\* ---- an expense save and the evaluation it triggers, statement by
\* ---- statement, for requests that run concurrently
\* request w inserts an expense of amount a; the post_save handler queries
\* the ACTIVE budgets and holds the Budget row it got in memory
ExpenseViewSet_create_begin(w, a) ==
    /\ workers[w].pc = "idle"
    /\ Len(expenses) < MaxExpenses
    /\ expenses' = Append(expenses, [amount |-> a, status |-> COMPLETED,
                                     is_deleted |-> FALSE])
    /\ workers' = [workers EXCEPT
           ![w] = IF is_evaluated(budget, expenses', Len(expenses'))
                  THEN [@ EXCEPT !.pc = "utilization", !.instance = budget]
                  ELSE [@ EXCEPT !.pc = "done"]]
    /\ UNCHANGED <<shared_expense, splits, debts, payments, now, last,
                   shared_expenses, budget, alerts, reset_mark,
                   outbox, response, group>>

\* check_and_send_alerts of request w reads utilization_percentage
check_and_send_alerts_utilization(w) ==
    /\ workers[w].pc = "utilization"
    /\ workers' = [workers EXCEPT ![w].pc = "check_80",
                                  ![w].spent = spent_amount(expenses)]
    /\ UNCHANGED <<shared_expense, splits, debts, payments, now, last,
                   shared_expenses, budget, expenses, alerts, reset_mark,
                   outbox, response, group>>

\* the 80% branch of request w: the condition on the instance in memory,
\* _send_alert_80 and the assignment of the flag
check_and_send_alerts_80(w) ==
    /\ workers[w].pc = "check_80"
    /\ IF should_alert_80(workers[w].instance, workers[w].spent)
       THEN /\ alerts' = send_budget_alert(alerts, ALERT_80)
            /\ workers' = [workers EXCEPT ![w].pc = "save_80",
                                          ![w].instance.alerted_at_80 = TRUE]
       ELSE /\ workers' = [workers EXCEPT ![w].pc = "check_100"]
            /\ UNCHANGED alerts
    /\ UNCHANGED <<shared_expense, splits, debts, payments, now, last,
                   shared_expenses, budget, expenses, reset_mark,
                   outbox, response, group>>

\* self.save(update_fields=['alerted_at_80']) of request w
check_and_send_alerts_save_80(w) ==
    /\ workers[w].pc = "save_80"
    /\ budget' = [budget EXCEPT
                      !.alerted_at_80 = workers[w].instance.alerted_at_80]
    /\ workers' = [workers EXCEPT ![w].pc = "check_100"]
    /\ UNCHANGED <<shared_expense, splits, debts, payments, now, last,
                   shared_expenses, expenses, alerts, reset_mark,
                   outbox, response, group>>

\* the 100% branch of request w: the condition on the instance in memory,
\* _send_alert_100 and the assignment of the flag and the status
check_and_send_alerts_100(w) ==
    /\ workers[w].pc = "check_100"
    /\ IF should_alert_100(workers[w].instance, workers[w].spent)
       THEN /\ alerts' = send_budget_alert(alerts, ALERT_EXCEEDED)
            /\ workers' = [workers EXCEPT ![w].pc = "save_100",
                                          ![w].instance.alerted_at_100 = TRUE,
                                          ![w].instance.status = EXCEEDED]
       ELSE /\ workers' = [workers EXCEPT ![w].pc = "done"]
            /\ UNCHANGED alerts
    /\ UNCHANGED <<shared_expense, splits, debts, payments, now, last,
                   shared_expenses, budget, expenses, reset_mark,
                   outbox, response, group>>

\* self.save(update_fields=['alerted_at_100', 'status']) of request w
check_and_send_alerts_save_100(w) ==
    /\ workers[w].pc = "save_100"
    /\ budget' = [budget EXCEPT
                      !.alerted_at_100 = workers[w].instance.alerted_at_100,
                      !.status = workers[w].instance.status]
    /\ workers' = [workers EXCEPT ![w].pc = "done"]
    /\ UNCHANGED <<shared_expense, splits, debts, payments, now, last,
                   shared_expenses, expenses, alerts, reset_mark,
                   outbox, response, group>>

\* ---- DebtViewSet.add_payment statement by statement, for requests that
\* ---- run concurrently
\* request w: get_object loads Debt row d, and Debt.add_payment updates the
\* instance in memory
DebtViewSet_add_payment_get_object(w, d, req) ==
    /\ workers[w].pc = "idle"
    /\ d \in DOMAIN debts
    /\ req.kind = "int" /\ req.value # 0
    /\ LET amount == req.value * CentsPerUnit
       IN workers' = [workers EXCEPT
              ![w] = [@ EXCEPT !.pc = "save",
                               !.instance = Debt_add_payment(debts[d], amount,
                                                             now),
                               !.debt = d, !.amount = amount,
                               !.loaded = debts[d].settled_amount]]
    /\ UNCHANGED <<shared_expense, splits, debts, payments, now, last,
                   shared_expenses, outbox, response, group>>
    /\ UNCHANGED budgetVars

\* self.save() of request w: every column of the row is written from the
\* instance in memory
Debt_add_payment_save(w) ==
    /\ workers[w].pc = "save"
    /\ debts' = [debts EXCEPT ![workers[w].debt] = workers[w].instance]
    /\ workers' = [workers EXCEPT ![w].pc = "create"]
    /\ UNCHANGED <<shared_expense, splits, payments, now, last,
                   shared_expenses, outbox, response, group>>
    /\ UNCHANGED budgetVars

\* DebtPayment.objects.create of request w
Debt_add_payment_create(w) ==
    /\ workers[w].pc = "create"
    /\ payments' = Append(payments,
                          DebtPayment_create(workers[w].debt, workers[w].amount))
    /\ workers' = [workers EXCEPT ![w].pc = "done"]
    /\ UNCHANGED <<shared_expense, splits, debts, now, last,
                   shared_expenses, outbox, response, group>>
    /\ UNCHANGED budgetVars

\* ---- notification of an alert
\* what hasattr(user, 'profile') and profile.email_notifications give: no
\* profile, notifications turned off, notifications on (the default)
Profiles == {"none", "off", "on"}

\* sent_via_email after NotificationService._send_email_alert returned:
\* send_mail runs with fail_silently and every exception is caught, and the
\* caller sets the flag to True whatever happened to the mail
send_email_alert(delivered) == TRUE

\* NotificationService.send_budget_alert: the BudgetAlert row it leaves;
\* delivered tells whether the mail backend delivered the message
NotificationService_send_budget_alert(alert_type, profile, delivered) ==
    /\ Len(outbox) < MaxNotifications
    /\ LET created == [alert_type |-> alert_type, attempted |-> FALSE,
                       delivered |-> FALSE, sent_via_email |-> FALSE]
           alert == IF profile = "on"
                    THEN [created EXCEPT
                              !.attempted = TRUE,
                              !.delivered = delivered,
                              !.sent_via_email = send_email_alert(delivered)]
                    ELSE created
       IN outbox' = Append(outbox, alert)
    /\ UNCHANGED <<shared_expense, splits, debts, payments, now, last,
                   shared_expenses, workers, response, group>>
    /\ UNCHANGED budgetVars

\* ---- balance summary of the group
\* ExpenseGroup.get_balance_summary for the members in queryset order: the
\* first statement of the loop aggregates Sum('amount') over the group's
\* SharedExpense rows; amount is a property of SharedExpense, not a column,
\* so the ORM raises FieldError when the query is built
ExpenseGroup_get_balance_summary(members) ==
    IF Len(members) = 0
    THEN [outcome |-> "200", balances |-> <<>>]
    ELSE [outcome |-> "FieldError", balances |-> <<>>]

\* GET expense-groups/<pk>/balance_summary/
ExpenseGroupViewSet_balance_summary ==
    /\ LET summary == ExpenseGroup_get_balance_summary(OrderedList(Users))
       IN /\ response' = summary.balances
          /\ last' = [op |-> "balance_summary", debt |-> 0, kind |-> "none",
                      amount |-> 0, created |-> 0,
                      outcome |-> summary.outcome]
    /\ UNCHANGED <<shared_expense, splits, debts, payments, now,
                   shared_expenses, workers, outbox, group>>
    /\ UNCHANGED budgetVars

\* ---- the expense group and its members
\* POST expense-groups/ by user with members = member_ids:
\* ExpenseGroupSerializer.create makes the requester admin and sets the
\* members to the payload
ExpenseGroupViewSet_create(user, member_ids) ==
    /\ group' = [admin |-> user, members |-> member_ids]
    /\ last' = [op |-> "group_create", debt |-> user, kind |-> "none",
                amount |-> 0, created |-> 1, outcome |-> "201"]
    /\ UNCHANGED <<shared_expense, splits, debts, payments, now,
                   shared_expenses, workers, outbox, response>>
    /\ UNCHANGED budgetVars

\* PATCH expense-groups/<pk>/ by user with members = member_ids: the
\* queryset holds the groups the requester is a member of; admin is
\* read-only
ExpenseGroupViewSet_partial_update(user, member_ids) ==
    /\ IF user \in group.members
       THEN /\ group' = [group EXCEPT !.members = member_ids]
            /\ last' = [op |-> "group_update", debt |-> user, kind |-> "none",
                        amount |-> 0, created |-> 0, outcome |-> "200"]
       ELSE /\ last' = [op |-> "group_update", debt |-> user, kind |-> "none",
                        amount |-> 0, created |-> 0, outcome |-> "404"]
            /\ UNCHANGED group
    /\ UNCHANGED <<shared_expense, splits, debts, payments, now,
                   shared_expenses, workers, outbox, response>>
    /\ UNCHANGED budgetVars

\* the settlement of debts: the splits are created for all group members
\* (a request without 'members'), then payments are made
Next ==
    \/ SharedExpenseViewSet_create_equal_splits({})
    \/ \E d \in 1..MaxUsers, req \in RequestAmounts :
           DebtViewSet_add_payment(d, req)
    \/ \E d \in 1..MaxUsers : DebtViewSet_settle(d)
    \/ \E d \in 1..MaxUsers : DebtViewSet_partial_update(d)

Spec == Init /\ [][Next]_vars

\* the creation of splits, for every choice of members and repeated calls
NextSplits ==
    \E member_ids \in SUBSET Users :
        SharedExpenseViewSet_create_equal_splits(member_ids)

SpecSplits == Init /\ [][NextSplits]_vars

\* the splits of all group members are created, then saved again by settle
\* and unsettle
NextResave ==
    \/ SharedExpenseViewSet_create_equal_splits({})
    \/ \E k \in 1..MaxUsers : SharedExpenseSplit_settle(k)
    \/ \E k \in 1..MaxUsers : SharedExpenseSplit_unsettle(k)

SpecResave == Init /\ [][NextResave]_vars

\* the splits of all group members are created, payments of 1.00 are made
\* into the first two debts, and the first two splits are settled and
\* unsettled
NextSettle ==
    \/ SharedExpenseViewSet_create_equal_splits({})
    \/ \E d \in 1..2 :
           DebtViewSet_add_payment(d, [kind |-> "int", value |-> 1])
    \/ \E k \in 1..2 : SharedExpenseSplit_settle(k)
    \/ \E k \in 1..2 : SharedExpenseSplit_unsettle(k)

SpecSettle == Init /\ [][NextSettle]_vars

\* the creation of SharedExpense rows for the expenses 1..MaxSharedExpenses
NextLedger ==
    \E e \in 1..MaxSharedExpenses, p \in Accounts :
        SharedExpenseViewSet_create(e, p)

SpecLedger == Init /\ [][NextLedger]_vars

\* a budget of 500.00 with either alert enabled or not, and no expense yet
InitBudget ==
    /\ shared_expense = [amount |-> 300, paid_by |-> 1]
    /\ splits = <<>>
    /\ debts = <<>>
    /\ payments = <<>>
    /\ now = 1
    /\ last = [op |-> "none", debt |-> 0, kind |-> "none", amount |-> 0,
               created |-> 0, outcome |-> "none"]
    /\ shared_expenses = <<[expense |-> 1, paid_by |-> 1]>>
    /\ \E threshold_80, threshold_100 \in BOOLEAN :
           budget = NewBudget(DefaultBudgetAmount, threshold_80, threshold_100)
    /\ expenses = <<>>
    /\ alerts = <<>>
    /\ reset_mark = 0
    /\ workers = [w \in Workers |-> IdleWorker]
    /\ outbox = <<>>
    /\ response = <<>>
    /\ group = [admin |-> 1, members |-> Users]

\* expenses of the budget's owner, category and period are saved, cancelled
\* and deleted, and the budget's alerts are reset
NextBudget ==
    \/ \E a \in ExpenseAmounts : ExpenseViewSet_create(a)
    \/ \E i \in 1..MaxExpenses : ExpenseViewSet_complete(i)
    \/ \E i \in 1..MaxExpenses : ExpenseViewSet_cancel(i)
    \/ \E i \in 1..MaxExpenses : ExpenseAdmin_mark_completed(i)
    \/ \E i \in 1..MaxExpenses : delete_expense_view(i)
    \/ BudgetViewSet_reset_alerts
    \/ BudgetAdmin_change_status

SpecBudget == InitBudget /\ [][NextBudget]_vars

\* expenses are saved, cancelled, completed, deleted and restored
NextSpending ==
    \/ \E a \in ExpenseAmounts : ExpenseViewSet_create(a)
    \/ \E i \in 1..MaxExpenses : ExpenseViewSet_complete(i)
    \/ \E i \in 1..MaxExpenses : ExpenseViewSet_cancel(i)
    \/ \E i \in 1..MaxExpenses : ExpenseAdmin_mark_completed(i)
    \/ \E i \in 1..MaxExpenses : delete_expense_view(i)
    \/ \E i \in 1..MaxExpenses : Expense_restore(i)

SpecSpending == InitBudget /\ [][NextSpending]_vars

\* a group is created and its members are updated
NextGroups ==
    \/ \E user \in Accounts, member_ids \in SUBSET Accounts :
           ExpenseGroupViewSet_create(user, member_ids)
    \/ \E user \in Accounts, member_ids \in SUBSET Accounts :
           ExpenseGroupViewSet_partial_update(user, member_ids)

SpecGroups == Init /\ [][NextGroups]_vars

\* splits are created, and the balance summary of the group is requested
NextBalance ==
    \/ \E member_ids \in SUBSET Users :
           SharedExpenseViewSet_create_equal_splits(member_ids)
    \/ ExpenseGroupViewSet_balance_summary

SpecBalance == Init /\ [][NextBalance]_vars

\* alerts are sent to users with and without e-mail notifications, and the
\* mail is delivered or not
NextNotify ==
    \E alert_type \in {ALERT_80, ALERT_EXCEEDED}, profile \in Profiles,
       delivered \in BOOLEAN :
        NotificationService_send_budget_alert(alert_type, profile, delivered)

SpecNotify == Init /\ [][NextNotify]_vars

\* the splits of all members are created, then two requests pay into debts;
\* their statements interleave in any order
NextPayRace ==
    \/ SharedExpenseViewSet_create_equal_splits({})
    \/ \E w \in Workers :
           \/ \E d \in 1..MaxUsers, req \in RequestAmounts :
                  DebtViewSet_add_payment_get_object(w, d, req)
           \/ Debt_add_payment_save(w)
           \/ Debt_add_payment_create(w)

SpecPayRace == Init /\ [][NextPayRace]_vars

\* two requests each save an expense; the statements of their evaluations
\* interleave in any order
NextEvalRace ==
    \E w \in Workers :
        \/ \E a \in ExpenseAmounts : ExpenseViewSet_create_begin(w, a)
        \/ check_and_send_alerts_utilization(w)
        \/ check_and_send_alerts_80(w)
        \/ check_and_send_alerts_save_80(w)
        \/ check_and_send_alerts_100(w)
        \/ check_and_send_alerts_save_100(w)

SpecEvalRace == InitBudget /\ [][NextEvalRace]_vars

\* ------------------------------------------------------------ properties
\* a request that reached Debt.add_payment of debt d with a Decimal amount
PaidInto(d) == last'.op = "add_payment" /\ last'.debt = d /\ last'.kind = "int"

\* C1: for every Debt, 0 <= settled_amount <= amount in every reachable
\* state, whatever amounts were paid
C1_SettledWithinAmount ==
    \A d \in DOMAIN debts :
        0 <= debts[d].settled_amount /\ debts[d].settled_amount <= debts[d].amount

\* C2: the amounts of a Debt's DebtPayment rows sum to its settled_amount
C2_PaymentsSumToSettled ==
    \A d \in DOMAIN debts :
        SumPayments(payments, d, Len(payments)) = debts[d].settled_amount

\* C3: the status of a Debt that is not cancelled is a function of its
\* settled_amount: 0 is PENDING, strictly between 0 and amount is
\* PARTIALLY_PAID, amount is SETTLED
C3_StatusFromSettled ==
    \A d \in DOMAIN debts :
        debts[d].status # CANCELLED =>
            /\ debts[d].settled_amount = 0 => debts[d].status = PENDING
            /\ (0 < debts[d].settled_amount
                    /\ debts[d].settled_amount < debts[d].amount)
                   => debts[d].status = PARTIALLY_PAID
            /\ debts[d].settled_amount = debts[d].amount
                   => debts[d].status = SETTLED

\* C4: no add_payment moves a Debt from SETTLED to PARTIALLY_PAID or
\* PENDING, or from PARTIALLY_PAID to PENDING
C4_StatusForwardOnly ==
    [][\A d \in DOMAIN debts :
          last'.op = "add_payment" /\ last'.debt = d =>
              /\ debts[d].status = SETTLED
                     => debts'[d].status \notin {PARTIALLY_PAID, PENDING}
              /\ debts[d].status = PARTIALLY_PAID
                     => debts'[d].status # PENDING]_vars

C6_NonPositiveRejected ==
    [][\A d \in DOMAIN debts :
          (PaidInto(d) /\ last'.amount <= 0) =>
              /\ last'.outcome # "200"
              /\ debts'[d] = debts[d]
              /\ payments' = payments]_vars

\* C7: add_payment and settle_full on a CANCELLED Debt fail, keep
\* settled_amount and the status CANCELLED and append no DebtPayment
C7_CancelledRejects ==
    [][\A d \in DOMAIN debts :
          (/\ debts[d].status = CANCELLED
           /\ last'.op \in {"add_payment", "settle"}
           /\ last'.debt = d) =>
              /\ last'.outcome # "200"
              /\ debts'[d].settled_amount = debts[d].settled_amount
              /\ debts'[d].status = CANCELLED
              /\ payments' = payments]_vars

\* C8: a SETTLED Debt's originating split is settled, and settled_at is set
\* only on SETTLED debts
C8_SettledPropagates ==
    \A d \in DOMAIN debts :
        /\ debts[d].status = SETTLED
               => splits[debts[d].shared_expense_split].is_settled
        /\ debts[d].settled_at # NoTime => debts[d].status = SETTLED

\* C9: settle_full with remaining > 0 appends exactly one payment of the
\* remaining amount and leaves settled_amount = amount and status SETTLED;
\* with remaining <= 0 it changes no Debt and appends no DebtPayment
C9_SettleFull ==
    [][\A d \in DOMAIN debts :
          (last'.op = "settle" /\ last'.debt = d) =>
              IF remaining_amount(debts[d]) > 0
              THEN /\ payments' = Append(payments,
                          [debt |-> d, amount |-> remaining_amount(debts[d])])
                   /\ debts'[d].settled_amount = debts[d].amount
                   /\ debts'[d].status = SETTLED
                   /\ \A e \in DOMAIN debts : e # d => debts'[e] = debts[e]
              ELSE debts' = debts /\ payments' = payments]_vars

\* a partly paid Debt was settled in full by one payment of the remainder
C9_Witness ==
    /\ last.op = "settle" /\ last.amount > 0
    /\ Len(payments) = 2
    /\ payments[1].debt = last.debt /\ payments[1].amount > 0
    /\ payments[2].debt = last.debt
    /\ payments[2].amount = debts[last.debt].amount - payments[1].amount
    /\ debts[last.debt].status = SETTLED

\* C10: the splits one create_equal_splits call stores sum to the expense
\* amount, the first participant taking the remainder of the division
C10_EqualSplitsSumToTotal ==
    (last.op = "create_equal_splits" /\ last.outcome = "200"
        /\ last.created > 0) =>
        LET first == Len(splits) - last.created + 1
            share == shared_expense.amount \div last.created
        IN /\ SumSplits(splits, first, Len(splits)) = shared_expense.amount
           /\ \A k \in (first + 1)..Len(splits) : splits[k].amount = share
           /\ splits[first].amount =
                  shared_expense.amount - (last.created - 1) * share

\* the Debt rows derived from split row k
DebtsOfSplit(ds, k) ==
    {i \in DOMAIN ds : /\ ds[i].creditor = shared_expense.paid_by
                       /\ ds[i].debtor = splits[k].user
                       /\ ds[i].shared_expense_split = k}

\* C11: every split of a participant other than the payer has a Debt from
\* that participant to the payer for the split's amount, and no Debt has its
\* creditor as debtor
C11_DebtPerNonPayerSplit ==
    /\ \A k \in DOMAIN splits :
           splits[k].user # shared_expense.paid_by =>
               \E i \in DebtsOfSplit(debts, k) :
                   debts[i].amount = splits[k].amount
    /\ \A i \in DOMAIN debts : debts[i].debtor # debts[i].creditor

\* splits exist for the payer and for another member, and only the other
\* members have debts
C11_Witness ==
    /\ Len(splits) >= 2
    /\ \E k \in DOMAIN splits : splits[k].user = shared_expense.paid_by
    /\ Len(debts) = Len(splits) - 1

\* C12: there is at most one Debt per (creditor, debtor, originating split),
\* and another save of a split leaves the Debt rows as they were
C12_DerivationIdempotent ==
    [][/\ \A i, j \in DOMAIN debts' :
              (/\ debts'[i].creditor = debts'[j].creditor
               /\ debts'[i].debtor = debts'[j].debtor
               /\ debts'[i].shared_expense_split
                      = debts'[j].shared_expense_split) => i = j
       /\ last'.op \in {"split_settle", "split_unsettle"}
              => debts' = debts]_vars

\* an unsettled split of a member other than the payer was saved again and
\* has its one Debt
C12_Witness ==
    /\ last.op = "split_unsettle"
    /\ splits[last.debt].user # shared_expense.paid_by
    /\ ~splits[last.debt].is_settled
    /\ Cardinality(DebtsOfSplit(debts, last.debt)) = 1

\* C13: a create_equal_splits call that fails leaves no split and no Debt
\* of its own behind
C13_SplitCreationAtomic ==
    [][(last'.op = "create_equal_splits" /\ last'.outcome # "200")
           => splits' = splits /\ debts' = debts]_vars

\* C14: the payer of every SharedExpense is a member of its group
C14_PayerIsGroupMember ==
    \A i \in DOMAIN shared_expenses : shared_expenses[i].paid_by \in Users

\* C15: there is at most one SharedExpense per Expense
C15_OneSharedExpensePerExpense ==
    \A i, j \in DOMAIN shared_expenses :
        shared_expenses[i].expense = shared_expenses[j].expense => i = j

\* the number of BudgetAlert rows of one type created since the last reset
AlertsSinceReset(alert_type) ==
    Cardinality({i \in (reset_mark + 1)..Len(alerts) : alerts[i] = alert_type})

\* the number of BudgetAlert rows of one type
CountAlerts(als, alert_type) ==
    Cardinality({i \in DOMAIN als : als[i] = alert_type})

\* C16: between two reset_alerts calls at most one 80_PERCENT alert and at
\* most one EXCEEDED alert is created for the budget, whatever expenses are
\* saved and however often the budget is evaluated
C16_OneAlertPerThreshold ==
    /\ AlertsSinceReset(ALERT_80) <= 1
    /\ AlertsSinceReset(ALERT_EXCEEDED) <= 1

\* the budget was evaluated in the warning range with the 80% alert already
\* sent, and no further alert was created
C16_Witness ==
    /\ last.kind = "evaluated" /\ last.created = 0
    /\ budget.alert_threshold_80 /\ budget.alerted_at_80
    /\ in_warning_range(budget, spent_amount(expenses))
    /\ AlertsSinceReset(ALERT_80) = 1

\* an evaluation after the save of one expense took utilization from below
\* 80% to 100% or more, both alerts enabled and neither sent yet
JumpPastBoth ==
    /\ last'.kind = "evaluated"
    /\ budget.alert_threshold_80 /\ budget.alert_threshold_100
    /\ ~budget.alerted_at_80 /\ ~budget.alerted_at_100
    /\ ~utilization_at_least(budget, spent_amount(expenses), 80)
    /\ utilization_at_least(budget, spent_amount(expenses'), 100)

\* C17 as stated: when one expense moves utilization from below 80% to 100%
\* or more, the evaluation emits an 80_PERCENT and an EXCEEDED alert and
\* sets both alerted flags
C17_JumpEmitsBoth ==
    [][JumpPastBoth =>
          /\ CountAlerts(alerts', ALERT_80) = CountAlerts(alerts, ALERT_80) + 1
          /\ CountAlerts(alerts', ALERT_EXCEEDED)
                 = CountAlerts(alerts, ALERT_EXCEEDED) + 1
          /\ budget'.alerted_at_80 /\ budget'.alerted_at_100]_vars

\* C17 as amended: when one expense moves utilization from below 80% to
\* 100% or more, the evaluation emits the EXCEEDED alert only, sets
\* alerted_at_100 and the status EXCEEDED, and leaves alerted_at_80 false
C17_JumpEmitsExceededOnly ==
    [][JumpPastBoth =>
          /\ alerts' = Append(alerts, ALERT_EXCEEDED)
          /\ budget'.alerted_at_100 /\ budget'.status = EXCEEDED
          /\ ~budget'.alerted_at_80]_vars

\* the first expense of 600.00 took the budget of 500.00 from 0% to 120%
C17_Witness ==
    /\ last.op = "expense_create" /\ last.kind = "evaluated"
    /\ Len(expenses) = 1 /\ expenses[1].amount > budget.amount
    /\ budget.alert_threshold_80 /\ budget.alert_threshold_100
    /\ alerts = <<ALERT_EXCEEDED>>
    /\ budget.status = EXCEEDED

\* C18: an evaluation with utilization >= 100, the 100% alert enabled and
\* not yet sent creates exactly one EXCEEDED alert, sets alerted_at_100 and
\* the status EXCEEDED; with the 100% alert disabled or already sent it
\* creates no EXCEEDED alert
C18_ExceededAlert ==
    [][last'.kind = "evaluated" =>
          /\ (/\ utilization_at_least(budget, spent_amount(expenses'), 100)
              /\ budget.alert_threshold_100 /\ ~budget.alerted_at_100)
                 => /\ CountAlerts(alerts', ALERT_EXCEEDED)
                           = CountAlerts(alerts, ALERT_EXCEEDED) + 1
                    /\ budget'.alerted_at_100
                    /\ budget'.status = EXCEEDED
          /\ (~budget.alert_threshold_100 \/ budget.alerted_at_100)
                 => CountAlerts(alerts', ALERT_EXCEEDED)
                        = CountAlerts(alerts, ALERT_EXCEEDED)]_vars

\* an evaluation at exactly 100% created the EXCEEDED alert
C18_Witness ==
    /\ last.kind = "evaluated" /\ last.created = 1
    /\ spent_amount(expenses) = budget.amount
    /\ alerts[Len(alerts)] = ALERT_EXCEEDED
    /\ budget.alerted_at_100 /\ budget.status = EXCEEDED

C20_ResetFrame ==
    [][(last'.op = "reset_alerts" /\ last'.outcome = "200") =>
          /\ ~budget'.alerted_at_80 /\ ~budget'.alerted_at_100
          /\ budget'.status = budget.status
          /\ budget'.amount = budget.amount
          /\ budget'.alert_threshold_80 = budget.alert_threshold_80
          /\ budget'.alert_threshold_100 = budget.alert_threshold_100
          /\ alerts' = alerts]_vars

\* the alerts of a budget with the 100% alert disabled were reset after its
\* 80% alert had been sent
C20_Witness ==
    /\ last.op = "reset_alerts" /\ last.outcome = "200"
    /\ alerts = <<ALERT_80>>
    /\ ~budget.alert_threshold_100
    /\ ~budget.alerted_at_80 /\ ~budget.alerted_at_100

\* a step that saved expense row last'.debt in the counted state
CountedSave ==
    /\ last'.op \in {"expense_create", "expense_complete",
                     "admin_mark_completed", "expense_restore"}
    /\ last'.outcome = "200"
    /\ expenses'[last'.debt].status = COMPLETED
    /\ ~expenses'[last'.debt].is_deleted

\* C21: every save of a matching expense in the counted state evaluates the
\* budget: an enabled threshold that is not yet alerted and that the new
\* utilization satisfies gets its alert in that step
C21_CountedSaveAlerts ==
    [][CountedSave =>
          /\ (/\ budget.alert_threshold_80 /\ ~budget.alerted_at_80
              /\ utilization_at_least(budget, spent_amount(expenses'), 80)
              /\ ~utilization_at_least(budget, spent_amount(expenses'), 100))
                 => CountAlerts(alerts', ALERT_80)
                        = CountAlerts(alerts, ALERT_80) + 1
          /\ (/\ budget.alert_threshold_100 /\ ~budget.alerted_at_100
              /\ utilization_at_least(budget, spent_amount(expenses'), 100))
                 => CountAlerts(alerts', ALERT_EXCEEDED)
                        = CountAlerts(alerts, ALERT_EXCEEDED) + 1]_vars

\* C22: when the evaluations of two concurrent expense saves interleave, no
\* threshold is alerted twice: at most one BudgetAlert of each type exists
C22_NoDoubleAlertUnderRace ==
    /\ CountAlerts(alerts, ALERT_80) <= 1
    /\ CountAlerts(alerts, ALERT_EXCEEDED) <= 1

\* both requests have finished, and both paid into debt d
BothPaid(d) ==
    \A w \in Workers : workers[w].pc = "done" /\ workers[w].debt = d

\* C23: however the load, update and write steps of two add_payment calls
\* on one Debt interleave, the stored settled_amount never exceeds the
\* Debt's amount
C23_RaceWithinAmount ==
    \A d \in DOMAIN debts : debts[d].settled_amount <= debts[d].amount

\* two payments that together overshoot the Debt were both computed from the
\* unpaid row, and both have been saved
C23_Witness ==
    \E d \in DOMAIN debts :
        /\ BothPaid(d)
        /\ \A w \in Workers : workers[w].loaded = 0 /\ workers[w].amount > 0
        /\ workers[1].amount + workers[2].amount > debts[d].amount
        /\ debts[d].settled_amount <= debts[d].amount

\* C30: two concurrent add_payment calls with positive amounts a and b,
\* a + b within the remaining balance, leave settled_amount = initial
\* settled_amount + a + b, equal to the sum of the two DebtPayment rows
C30_NoLostPayment ==
    \A d \in DOMAIN debts :
        (/\ BothPaid(d)
         /\ \A w \in Workers : workers[w].amount > 0
         /\ workers[1].amount + workers[2].amount <= debts[d].amount)
            => /\ debts[d].settled_amount
                      = workers[1].amount + workers[2].amount
               /\ SumPayments(payments, d, Len(payments))
                      = debts[d].settled_amount

RECURSIVE OwedBy(_, _)
OwedBy(m, n) ==
    IF n = 0 THEN 0
    ELSE OwedBy(m, n - 1) + (IF splits[n].user = m THEN splits[n].amount ELSE 0)

\* the amount of the shared expense if member m paid it
PaidBy(m) == IF shared_expense.paid_by = m THEN shared_expense.amount ELSE 0

\* C25: balance_summary returns for every member of the group paid (the
\* amounts of the shared expenses the member paid), owed (the member's split
\* amounts) and balance = paid - owed
C25_BalanceSummary ==
    last.op = "balance_summary" =>
        /\ last.outcome = "200"
        /\ \A m \in Users :
               response[m] = [paid |-> PaidBy(m),
                              owed |-> OwedBy(m, Len(splits)),
                              balance |-> PaidBy(m) - OwedBy(m, Len(splits))]

\* C26: the admin of the group is one of its members, right after the
\* creation of the group and after every update of its members
C26_AdminIsMember == group.admin \in group.members

\* the amount expense row e contributes: its amount if it is COMPLETED and
\* not soft-deleted
Contribution(e) == IF e.status = COMPLETED /\ ~e.is_deleted THEN e.amount ELSE 0

\* C27: the spent amount follows the expenses that are COMPLETED and not
\* soft-deleted: a new expense adds its amount, a cancelled or soft-deleted
\* expense no longer contributes, and it contributes again after complete
\* or restore
C27_SpentFollowsCounted ==
    [][/\ last'.op = "expense_create"
              => spent_amount(expenses')
                     = spent_amount(expenses) + expenses'[Len(expenses')].amount
       /\ \A i \in DOMAIN expenses :
              (/\ last'.debt = i /\ last'.outcome = "200"
               /\ last'.op \in {"expense_cancel", "expense_delete",
                                "expense_complete", "admin_mark_completed",
                                "expense_restore"})
                  => /\ spent_amount(expenses')
                            = spent_amount(expenses) - Contribution(expenses[i])
                                  + Contribution(expenses'[i])
                     /\ last'.op \in {"expense_cancel", "expense_delete"}
                            => Contribution(expenses'[i]) = 0
                     /\ (last'.op = "admin_mark_completed"
                             /\ ~expenses[i].is_deleted)
                            => Contribution(expenses'[i]) = expenses[i].amount
                     /\ (last'.op = "expense_restore"
                             /\ expenses[i].status = COMPLETED)
                            => Contribution(expenses'[i]) = expenses[i].amount]_vars

\* a soft-deleted expense was restored and is the only one that counts: the
\* other expense is cancelled
C27_Witness ==
    /\ last.op = "expense_restore"
    /\ Len(expenses) = 2
    /\ \E j \in DOMAIN expenses :
           j # last.debt /\ expenses[j].status = CANCELLED
    /\ spent_amount(expenses) = expenses[last.debt].amount

\* a step that leaves the BudgetAlert rows and both alerted flags as they were
AlertStateKept ==
    /\ alerts' = alerts
    /\ budget'.alerted_at_80 = budget.alerted_at_80
    /\ budget'.alerted_at_100 = budget.alerted_at_100

\* C28 as stated: once the status is EXCEEDED no step creates a BudgetAlert
\* or changes the flags, and no operation moves the status back to ACTIVE
C28_ExceededIsFinal ==
    [][budget.status = EXCEEDED =>
          AlertStateKept /\ budget'.status = EXCEEDED]_vars

\* C28 as amended: while the status is EXCEEDED no step creates a
\* BudgetAlert or changes the flags, and the status leaves EXCEEDED only by
\* an edit of the status in the admin change form
C28_ExceededNotEvaluated ==
    [][budget.status = EXCEEDED =>
          /\ AlertStateKept
          /\ budget'.status # EXCEEDED
                 => last'.op = "admin_change_status"
                        /\ budget'.status = ACTIVE]_vars

\* an expense was saved in the counted state while the budget was EXCEEDED:
\* utilization is in the warning range, the 80% alert is enabled and was
\* never sent, and no alert was created
C28_Witness ==
    /\ budget.status = EXCEEDED
    /\ last.op = "expense_create" /\ last.outcome = "200"
    /\ last.kind = "none" /\ last.created = 0
    /\ budget.alert_threshold_80 /\ ~budget.alerted_at_80
    /\ utilization_at_least(budget, spent_amount(expenses), 80)
    /\ ~utilization_at_least(budget, spent_amount(expenses), 100)
    /\ alerts = <<ALERT_EXCEEDED>>

\* C29: settle and unsettle of a split change only that split's is_settled
\* and settled_at: every Debt keeps its settled_amount, status and payments,
\* and no Debt is created or removed
C29_SettleChangesSplitOnly ==
    [][last'.op \in {"split_settle", "split_unsettle"} =>
          /\ debts' = debts
          /\ payments' = payments
          /\ Len(splits') = Len(splits)
          /\ \A k \in DOMAIN splits :
                 /\ splits'[k].user = splits[k].user
                 /\ splits'[k].amount = splits[k].amount
                 /\ k # last'.debt => splits'[k] = splits[k]]_vars

\* a split was settled while the Debt derived from it was partly paid, and
\* the Debt is still partly paid
C29_Witness ==
    /\ last.op = "split_settle"
    /\ splits[last.debt].is_settled
    /\ \E i \in DOMAIN debts :
           /\ debts[i].shared_expense_split = last.debt
           /\ debts[i].status = PARTIALLY_PAID
           /\ SumPayments(payments, i, Len(payments)) = debts[i].settled_amount
           /\ debts[i].settled_amount > 0
====
